---- MODULE Spec2Model ----
(***************************************************************************)
(* A model of schedule/__init__.py: the Scheduler (job list, task list,    *)
(* run_pending, run_all, cancel_job), the Job (fluent configuration, do,   *)
(* run, _schedule_next_run, _is_overdue) and the clock they read.          *)
(*                                                                         *)
(* Instants are whole seconds counted from a Monday 00:00:00 UTC, so that  *)
(* weekday(t) = (t \div 86400) % 7 with Monday = 0 as datetime.weekday().  *)
(* Sub-second parts of the clock are not represented.                      *)
(*                                                                         *)
(* One coroutine drives the scheduler: it makes one call at a time, and    *)
(* while it awaits asyncio.gather inside run_pending only the clock and    *)
(* the tasks move.  A job is configured (unit, to, until) before its first *)
(* do(); do() may be called again on a bound job.  None is written -1 for  *)
(* instants and numbers and "None" for strings.                            *)
(*                                                                         *)
(* Three specifications share the variables: Spec (several plain jobs),    *)
(* SpecOne (one job that may have a jitter bound and a deadline) and       *)
(* SpecRun (one job of any unit, the clock moving inside Job.run).         *)
(***************************************************************************)
EXTENDS Integers, Sequences, FiniteSets, TLC

\* ---------------------------------------------------------------- bounds
\* the clock value in the initial state
T0 == 100
\* how many times the clock may move (Advance, the skew between two readings
\* inside Job.run, the time.sleep of run_all)
MaxAdvances == 2
\* longest Scheduler.tasks list
MaxTasks == 2
\* longest Scheduler.jobs list (do may append the same job again)
MaxRegs == 2

\* the Job objects that Scheduler.every can create
JobIds == {1, 2}
\* the identities of the Job objects from_json creates
RestoredIds == {3, 4, 5}
\* the identities of all Job objects
Ids == JobIds \cup RestoredIds
\* arguments of every()
Intervals == {1, 2}
\* arguments of to()
Latests == {2}
\* arguments of until(), as datetime.timedelta seconds relative to the clock
UntilDeltas == {-1, 1}
\* amounts by which the clock moves between two operations
ClockSteps == {1}
\* units selected by the accessors in this specification
SpecUnits == {"seconds"}
\* arguments of run_all()
Delays == {0, 2}

\* ------------------------------------------------------- values and time
\* Python's None for the optional integer fields
None == -1
\* the empty string as a field of time_str.split(":")
Empty == -1

Units == {"seconds", "minutes", "hours", "days", "weeks"}

weekdays == <<"monday", "tuesday", "wednesday", "thursday", "friday",
              "saturday", "sunday">>

\* datetime.timedelta(**{unit: n}) in seconds
timedelta(unit, n) ==
    CASE unit = "seconds" -> n
      [] unit = "minutes" -> n * 60
      [] unit = "hours"   -> n * 3600
      [] unit = "days"    -> n * 86400
      [] unit = "weeks"   -> n * 604800

\* datetime.weekday(): Monday is 0
weekday(t) == (t \div 86400) % 7

\* weekdays.index(day)
WeekdayIndex(day) == CHOOSE i \in 1..7 : weekdays[i] = day

\* components of a datetime.time kept as seconds since midnight
Hour(tod) == tod \div 3600
Minute(tod) == (tod \div 60) % 60
Second(tod) == tod % 60

\* datetime.replace(hour=.., minute=.., second=.., microsecond=0) with the
\* keyword arguments that _schedule_next_run builds for the job's unit
replace(t, unit, anchored, at) ==
    LET tod == t % 86400
        h == IF unit = "days" \/ anchored THEN Hour(at) ELSE Hour(tod)
        m == IF unit \in {"days", "hours"} \/ anchored THEN Minute(at)
             ELSE Minute(tod)
    IN (t - tod) + h * 3600 + m * 60 + Second(at)

RangeOf(s) == {s[i] : i \in 1..Len(s)}

\* the error classes: ScheduleError, its subclass ScheduleValueError and
\* that one's subclass IntervalError.  isinstance(err, cls) for a raised err
IsInstance(err, cls) ==
    \/ err = cls
    \/ cls = "Exception" /\ err # "none"
    \/ cls = "ScheduleError" /\ err \in {"ScheduleValueError", "IntervalError"}
    \/ cls = "ScheduleValueError" /\ err = "IntervalError"

\* ------------------------------------------------------------------- Job
\* Job.__init__: a new job of the given interval
NewJob(n) ==
    [exists |-> TRUE, interval |-> n, latest |-> None, unit |-> "None",
     at_time |-> None, last_run |-> None, next_run |-> None,
     period |-> None, start_day |-> "None", cancel_after |-> None]

\* a Job object that every() has not created yet
NoJob == [NewJob(0) EXCEPT !.exists = FALSE]

\* Job._is_overdue
is_overdue(j, when) == j.cancel_after # None /\ when > j.cancel_after

\* a draw that can exceed latest by one
DrawsPastLatest(j) ==
    IF j.latest # None /\ j.latest >= j.interval
    THEN j.interval .. (j.latest + 1)
    ELSE {j.interval}

\* the values random.randint(self.interval, self.latest) can return; the
\* interval itself when no latest is set (or when it is rejected)
Draws(j) ==
    IF j.latest # None /\ j.latest >= j.interval
    THEN j.interval .. j.latest
    ELSE {j.interval}

\* a base instant taken from the clock whether or not the job has run
BaseFromClock(j, t, period) == t + period

\* the base instant: last_run + period, an already set next_run left as it
\* is, or now + period
BaseNextRun(j, t, period) ==
    IF j.last_run # None THEN j.last_run + period
    ELSE IF j.next_run # None THEN j.next_run
    ELSE t + period

\* an anchoring that stays on the day of the computation when that day is
\* the anchor weekday
AnchorSameDay(j, nr, period) ==
    LET wd == WeekdayIndex(j.start_day) - 1
        ahead == wd - weekday(nr)
        days_ahead == IF ahead < 0 THEN ahead + 7 ELSE ahead
    IN nr + days_ahead * 86400 - period

\* weekday anchoring of next_run (start_day is one of weekdays)
AnchorNextRun(j, nr, period) ==
    LET wd == WeekdayIndex(j.start_day) - 1
        ahead == wd - weekday(nr)
        days_ahead == IF ahead <= 0 THEN ahead + 7 ELSE ahead
    IN nr + days_ahead * 86400 - period

\* "make sure we run at the specified time today (or this hour) as well":
\* the shift applied after the time-of-day overwrite
CatchUp(j, nr, t, period) ==
    LET tod == t % 86400 IN
    IF j.last_run = None \/ (nr - j.last_run) > period
    THEN IF j.unit = "days" /\ j.at_time > tod /\ j.interval = 1
         THEN nr - 86400
         ELSE IF j.unit = "hours"
                 /\ (Minute(j.at_time) > Minute(tod)
                     \/ (Minute(j.at_time) = Minute(tod)
                         /\ Second(j.at_time) > Second(tod)))
         THEN nr - 3600
         ELSE IF j.unit = "minutes" /\ Second(j.at_time) > Second(tod)
         THEN nr - 60
         ELSE nr
    ELSE nr

\* Job._schedule_next_run, read at clock value t with randint returning n:
\* the job as the call leaves it and the error it raises ("none" when it
\* returns).  An error leaves the assignments made before it in place.
schedule_next_run(j, t, n) ==
    IF j.unit \notin Units
    THEN [job |-> j, err |-> "ScheduleValueError"]
    ELSE IF j.latest # None /\ ~(j.latest >= j.interval)
    THEN [job |-> j, err |-> "ScheduleError"]
    ELSE
    LET interval == IF j.latest # None THEN n ELSE j.interval
        period == timedelta(j.unit, interval)
        nr1 == BaseNextRun(j, t, period)
        j1 == [j EXCEPT !.period = period, !.next_run = nr1]
        anchored == j.start_day # "None"
    IN
    IF anchored /\ j.unit # "weeks"
    THEN [job |-> j1, err |-> "ScheduleValueError"]
    ELSE IF anchored /\ j.start_day \notin RangeOf(weekdays)
    THEN [job |-> j1, err |-> "ScheduleValueError"]
    ELSE
    LET nr2 == IF anchored THEN AnchorNextRun(j, nr1, period) ELSE nr1
        j2 == [j1 EXCEPT !.next_run = nr2]
    IN
    IF j.at_time = None
    THEN [job |-> j2, err |-> "none"]
    ELSE IF j.unit \notin {"days", "hours", "minutes"} /\ ~anchored
    THEN [job |-> j2, err |-> "ScheduleValueError"]
    ELSE
    LET nr3 == replace(nr2, j.unit, anchored, j.at_time)
        nr4 == CatchUp(j, nr3, t, period)
        nr5 == IF anchored /\ (nr4 - t) \div 86400 >= 7
               THEN nr4 - period ELSE nr4
    IN [job |-> [j2 EXCEPT !.next_run = nr5], err |-> "none"]

\* ------------------------------------------------------------- Scheduler
VARIABLES
    now,        \* the clock: datetime.datetime.now(tz=timezone.utc)
    advances,   \* how many times the clock has moved
    job,        \* the Job objects, by identity
    jobs,       \* Scheduler.jobs, a list of Job identities
    tasks,      \* Scheduler.tasks, the list of created asyncio tasks
    pc,         \* where the driving coroutine is
    pending,    \* the jobs the running for loop has still to dispatch
    delay,      \* delay_seconds of the running run_all
    tick,       \* what the running (or last) run_pending / run_all started from
    log,        \* the dispatches of the running (or last) run_pending / run_all
    ev,         \* the last operation and its outcome
    flash       \* what the file schedule.json holds

vars == <<now, advances, job, jobs, tasks, pc, pending, delay, tick, log, ev,
         flash>>

\* list.remove(x), after the ValueError of an absent x is caught
RemoveFirst(s, x) ==
    IF x \notin RangeOf(s) THEN s
    ELSE LET i == CHOOSE k \in 1..Len(s) :
                      s[k] = x /\ \A m \in 1..(k - 1) : s[m] # x
         IN SubSeq(s, 1, i - 1) \o SubSeq(s, i + 1, Len(s))

\* Scheduler.cancel_job: the job list it leaves
cancel_job(js, j) == RemoveFirst(js, j)

\* Job.__lt__
job_lt(a, b) == job[a].next_run < job[b].next_run

\* insertion of x into a sorted list, after the elements it is not less than
RECURSIVE InsertSorted(_, _)
InsertSorted(x, s) ==
    IF s = <<>> THEN <<x>>
    ELSE IF job_lt(x, Head(s)) THEN <<x>> \o s
    ELSE <<Head(s)>> \o InsertSorted(x, Tail(s))

\* sorted(list): stable, by Job.__lt__
RECURSIVE SortedFrom(_, _)
SortedFrom(s, acc) ==
    IF s = <<>> THEN acc ELSE SortedFrom(Tail(s), InsertSorted(Head(s), acc))

\* a loop over the due jobs in the order of the job list
unsorted(s) == s

sorted(s) == SortedFrom(s, <<>>)

\* a minimum that is the first job of the list
MinFirst(s, best) == best

\* min(list): the first job that no other job is less than (Job.__lt__)
RECURSIVE MinFrom(_, _)
MinFrom(s, best) ==
    IF s = <<>> THEN best
    ELSE IF job_lt(Head(s), best) THEN MinFrom(Tail(s), Head(s))
    ELSE MinFrom(Tail(s), best)

\* Scheduler.get_next_run
get_next_run(js) ==
    IF js = <<>> THEN None ELSE job[MinFrom(Tail(js), Head(js))].next_run

\* Scheduler.idle_seconds at clock value t: <<>> for None, or the number
\* of seconds in a sequence of one
idle_seconds(js, t) ==
    IF get_next_run(js) = None THEN <<>> ELSE <<get_next_run(js) - t>>

\* Job.should_run
should_run(j, t) == t >= job[j].next_run

\* the generator (job for job in self.jobs if job.should_run)
RECURSIVE SelectDue(_, _)
SelectDue(s, t) ==
    IF s = <<>> THEN <<>>
    ELSE IF should_run(Head(s), t) THEN <<Head(s)>> \o SelectDue(Tail(s), t)
    ELSE SelectDue(Tail(s), t)

\* the dispatch order of a run_pending started at clock value t
runnable_jobs(t) == sorted(SelectDue(jobs, t))

\* [task for task in self.tasks if not task.done()]
RECURSIVE NotDone(_)
NotDone(ts) ==
    IF ts = <<>> THEN <<>>
    ELSE IF Head(ts).done THEN NotDone(Tail(ts))
    ELSE <<Head(ts)>> \o NotDone(Tail(ts))

\* a gather that is left at the first result
GatherDoneFirst(ts) == \E i \in 1..Len(ts) : ts[i].done

\* asyncio.gather(*tasks) has every result
GatherDone(ts) == \A i \in 1..Len(ts) : ts[i].done

\* asyncio.create_task(self.job_func()) for job j
NewTask(j) == [job |-> j, done |-> FALSE, result |-> "pending"]

\* what a finished callable leaves in its task
TaskResults == {"value", "CancelJob", "raise"}

\* what Scheduler.tasks shows of a finished task
Stored(res) == IF res = "CancelJob" THEN "CancelJob" ELSE "other"

NoEvent == [op |-> "none", job |-> 0, out |-> "none", t |-> None,
            jobs0 |-> <<>>, value |-> <<>>]

\* the record of an operation: its name, the job it was about, its outcome
\* (an error name, or what a dispatch did), the clock value it read, for
\* cancel_job the job list it started from, and in value what idle_seconds
\* returned, the fields of the argument of at, or the argument of load_flash
Event(op, j, out, t) ==
    [op |-> op, job |-> j, out |-> out, t |-> t,
     jobs0 |-> IF op = "cancel_job" THEN jobs ELSE <<>>, value |-> <<>>]

\* schedule.json does not exist
NoFile == [state |-> "missing", data |-> <<>>]
\* schedule.json holds no JSON text: it is empty or malformed
InvalidFile == [state |-> "invalid", data |-> <<>>]
\* schedule.json holds the JSON text of the list data
File(data) == [state |-> "json", data |-> data]

NoTick == [kind |-> "none", t0 |-> None, jobs0 |-> <<>>, ntasks0 |-> 0,
           next_run0 |-> [j \in Ids |-> None],
           last_run0 |-> [j \in Ids |-> None]]

Init ==
    /\ now = T0
    /\ advances = 0
    /\ job = [j \in Ids |-> NoJob]
    /\ jobs = <<>>
    /\ tasks = <<>>
    /\ pc = "idle"
    /\ pending = <<>>
    /\ delay = 0
    /\ tick = NoTick
    /\ log = <<>>
    /\ ev = NoEvent
    /\ flash = NoFile

\* the clock moves while the driving coroutine is suspended or between two
\* of its calls
Advance(d) ==
    /\ pc \in {"idle", "gather"}
    /\ advances < MaxAdvances
    /\ now' = now + d
    /\ advances' = advances + 1
    /\ ev' = NoEvent
    /\ tick' = IF pc = "idle" THEN NoTick ELSE tick
    /\ log' = IF pc = "idle" THEN <<>> ELSE log
    /\ UNCHANGED <<job, jobs, tasks, pc, pending, delay, flash>>

\* Scheduler.every(interval): the next Job object
every(j, n) ==
    /\ pc = "idle"
    /\ ~job[j].exists
    /\ \A k \in JobIds : k < j => job[k].next_run # None
    /\ job' = [job EXCEPT ![j] = NewJob(n)]
    /\ ev' = NoEvent
    /\ UNCHANGED <<now, advances, jobs, tasks, pc, pending, delay, flash>>
    /\ tick' = NoTick
    /\ log' = <<>>

\* the plural unit accessors: Job.seconds, minutes, hours, days, weeks
PluralUnit(j, u) ==
    /\ pc = "idle"
    /\ job[j].exists
    /\ job[j].next_run = None
    /\ job' = [job EXCEPT ![j].unit = u]
    /\ ev' = NoEvent
    /\ UNCHANGED <<now, advances, jobs, tasks, pc, pending, delay, flash>>
    /\ tick' = NoTick
    /\ log' = <<>>

\* a weekday accessor that does not look at the interval
WeekdayUnchecked(j, day) ==
    /\ pc = "idle"
    /\ job[j].exists
    /\ job[j].next_run = None
    /\ ev' = Event(day, j, "none", now)
    /\ job' = [job EXCEPT ![j].start_day = day, ![j].unit = "weeks"]
    /\ UNCHANGED <<now, advances, jobs, tasks, pc, pending, delay, flash>>
    /\ tick' = NoTick
    /\ log' = <<>>

\* the singular unit accessors: Job.second, minute, hour, day, week
SingularUnit(j, u) ==
    /\ pc = "idle"
    /\ job[j].exists
    /\ job[j].next_run = None
    /\ IF job[j].interval # 1
       THEN /\ ev' = Event("unit", j, "IntervalError", now)
            /\ UNCHANGED job
       ELSE /\ ev' = NoEvent
            /\ job' = [job EXCEPT ![j].unit = u]
    /\ UNCHANGED <<now, advances, jobs, tasks, pc, pending, delay, flash>>
    /\ tick' = NoTick
    /\ log' = <<>>

\* the weekday accessors: Job.monday .. Job.sunday
WeekdayAccessor(j, day) ==
    /\ pc = "idle"
    /\ job[j].exists
    /\ job[j].next_run = None
    /\ IF job[j].interval # 1
       THEN /\ ev' = Event(day, j, "IntervalError", now)
            /\ UNCHANGED job
       ELSE /\ ev' = Event(day, j, "none", now)
            /\ job' = [job EXCEPT ![j].start_day = day, ![j].unit = "weeks"]
    /\ UNCHANGED <<now, advances, jobs, tasks, pc, pending, delay, flash>>
    /\ tick' = NoTick
    /\ log' = <<>>

\* the regular expressions of Job.at over time_str.split(":"): a field is
\* two digits (a number below 100 here) or empty
IsDaily(ts) ==
    /\ Len(ts) \in {2, 3}
    /\ ts[1] \in 0..29
    /\ \A i \in 2..Len(ts) : ts[i] \in 0..59
IsHourly(ts) == Len(ts) = 2 /\ ts[1] \in {Empty} \cup 0..59 /\ ts[2] \in 0..59
IsMinutely(ts) == Len(ts) = 2 /\ ts[1] = Empty /\ ts[2] \in 0..59

\* a reading of the fields in which a lone field of an hourly job is the
\* second
seconds_first(j, ts) ==
    IF Len(ts) = 3 THEN ts
    ELSE IF Len(ts) = 2 /\ j.unit = "minutes" THEN <<0, 0, ts[2]>>
    ELSE IF Len(ts) = 2 /\ j.unit = "hours"
    THEN <<0, IF ts[1] = Empty THEN 0 ELSE ts[1], ts[2]>>
    ELSE <<ts[1], ts[2], 0>>

\* hour, minute and second as Job.at takes them from time_str.split(":")
time_values(j, ts) ==
    IF Len(ts) = 3 THEN ts
    ELSE IF Len(ts) = 2 /\ j.unit = "minutes" THEN <<0, 0, ts[2]>>
    ELSE IF Len(ts) = 2 /\ j.unit = "hours" /\ ts[1] # Empty
    THEN <<0, ts[1], ts[2]>>
    ELSE <<ts[1], ts[2], 0>>

\* Job.at on job record j: the datetime.time it stores, as seconds since
\* midnight, and the error it raises instead
at_time_of(j, ts) ==
    LET anchored == j.start_day # "None"
        daily == j.unit = "days" \/ anchored
        hms == time_values(j, ts)
        hour == IF daily THEN hms[1] ELSE 0
        minute == IF ~daily /\ j.unit = "minutes" THEN 0 ELSE hms[2]
    IN
    IF j.unit \notin {"days", "hours", "minutes"} /\ ~anchored
    THEN [time |-> None, err |-> "ScheduleValueError"]
    ELSE IF daily /\ ~IsDaily(ts)
    THEN [time |-> None, err |-> "ScheduleValueError"]
    ELSE IF j.unit = "hours" /\ ~IsHourly(ts)
    THEN [time |-> None, err |-> "ScheduleValueError"]
    ELSE IF j.unit = "minutes" /\ ~IsMinutely(ts)
    THEN [time |-> None, err |-> "ScheduleValueError"]
    ELSE IF daily /\ ~(0 <= hour /\ hour <= 23)
    THEN [time |-> None, err |-> "ScheduleValueError"]
    ELSE [time |-> hour * 3600 + minute * 60 + hms[3], err |-> "none"]

\* Job.at(time_str)
at(j, ts) ==
    /\ pc = "idle"
    /\ job[j].exists
    /\ job[j].next_run = None
    /\ LET r == at_time_of(job[j], ts) IN
       /\ job' = IF r.err = "none" THEN [job EXCEPT ![j].at_time = r.time]
                 ELSE job
       /\ ev' = [Event("at", j, r.err, now) EXCEPT !.value = ts]
    /\ UNCHANGED <<now, advances, jobs, tasks, pc, pending, delay, flash>>
    /\ tick' = NoTick
    /\ log' = <<>>

\* Job.to(latest)
to(j, latest) ==
    /\ pc = "idle"
    /\ job[j].exists
    /\ job[j].next_run = None
    /\ job' = [job EXCEPT ![j].latest = latest]
    /\ ev' = NoEvent
    /\ UNCHANGED <<now, advances, jobs, tasks, pc, pending, delay, flash>>
    /\ tick' = NoTick
    /\ log' = <<>>

\* Job.until(datetime.timedelta(seconds=d)): cancel_after is assigned
\* before the check that rejects a moment in the past
until(j, d) ==
    /\ pc = "idle"
    /\ job[j].exists
    /\ job[j].next_run = None
    /\ job' = [job EXCEPT ![j].cancel_after = now + d]
    /\ ev' = Event("until", j,
                   IF now + d < now THEN "ScheduleValueError" ELSE "none", now)
    /\ UNCHANGED <<now, advances, jobs, tasks, pc, pending, delay, flash>>
    /\ tick' = NoTick
    /\ log' = <<>>

\* Job.do(job_func): the first next-run computation, then the registration
do(j, n) ==
    /\ pc = "idle"
    /\ job[j].exists
    /\ Len(jobs) < MaxRegs
    /\ n \in Draws(job[j])
    /\ LET r == schedule_next_run(job[j], now, n) IN
       /\ job' = [job EXCEPT ![j] = r.job]
       /\ jobs' = IF r.err = "none" THEN Append(jobs, j) ELSE jobs
       /\ ev' = Event("do", j, r.err, now)
    /\ UNCHANGED <<now, advances, tasks, pc, pending, delay, flash>>
    /\ tick' = NoTick
    /\ log' = <<>>

\* Scheduler.cancel_job(job), called by the program
CancelJobCall(j) ==
    /\ pc = "idle"
    /\ job[j].exists
    /\ jobs' = cancel_job(jobs, j)
    /\ ev' = Event("cancel_job", j, "none", now)
    /\ UNCHANGED <<now, advances, job, tasks, pc, pending, delay, flash>>
    /\ tick' = NoTick
    /\ log' = <<>>

\* the program reads Scheduler.idle_seconds
IdleSeconds ==
    /\ pc = "idle"
    /\ ev' = [Event("idle_seconds", 0, "none", now)
                 EXCEPT !.value = idle_seconds(jobs, now)]
    /\ UNCHANGED <<now, advances, job, jobs, tasks, pc, pending, delay, flash>>
    /\ tick' = NoTick
    /\ log' = <<>>

\* Scheduler.clear()
clear ==
    /\ pc = "idle"
    /\ jobs # <<>>
    /\ jobs' = <<>>
    /\ ev' = NoEvent
    /\ UNCHANGED <<now, advances, job, tasks, pc, pending, delay, flash>>
    /\ tick' = NoTick
    /\ log' = <<>>

\* Job.run for job record j: the overdue check reads the clock at t1,
\* last_run is read at t2 and _schedule_next_run reads it at t3; randint
\* returns n.  created: a task was created for the callable; ret: what run
\* returns; err: the error it raises instead
job_run(j, t1, t2, t3, n) ==
    IF is_overdue(j, t1)
    THEN [job |-> j, created |-> FALSE, ret |-> "CancelJob", err |-> "none"]
    ELSE LET r == schedule_next_run([j EXCEPT !.last_run = t2], t3, n) IN
         [job |-> r.job, created |-> TRUE,
          ret |-> IF is_overdue(r.job, r.job.next_run)
                  THEN "CancelJob" ELSE "task",
          err |-> r.err]

\* Scheduler._run_job: the job list after the call returned ret
run_job_jobs(js, j, ret) == IF ret = "CancelJob" THEN cancel_job(js, j) ELSE js

Snapshot(kind) ==
    [kind |-> kind, t0 |-> now, jobs0 |-> jobs, ntasks0 |-> Len(tasks),
     next_run0 |-> [j \in Ids |-> job[j].next_run],
     last_run0 |-> [j \in Ids |-> job[j].last_run]]

\* Scheduler.run_pending is called: the due jobs are selected and sorted
run_pending ==
    /\ pc = "idle"
    /\ Len(tasks) + Len(runnable_jobs(now)) <= MaxTasks
    /\ pending' = runnable_jobs(now)
    /\ pc' = "run_pending"
    /\ tick' = Snapshot("run_pending")
    /\ log' = <<>>
    /\ ev' = NoEvent
    /\ UNCHANGED <<now, advances, job, jobs, tasks, delay, flash>>

\* Scheduler.run_all(delay_seconds) is called: the loop runs over a copy of
\* the job list
run_all(d) ==
    /\ pc = "idle"
    /\ Len(tasks) + Len(jobs) <= MaxTasks
    /\ advances + (IF d > 0 THEN Len(jobs) ELSE 0) <= MaxAdvances
    /\ pending' = jobs
    /\ delay' = d
    /\ pc' = "run_all"
    /\ tick' = Snapshot("run_all")
    /\ log' = <<>>
    /\ ev' = NoEvent
    /\ UNCHANGED <<now, advances, job, jobs, tasks, flash>>

\* one pass of the for loop of run_pending or run_all: _run_job(job), and
\* in run_all the time.sleep that follows.  Job.run reads the clock three
\* times: for the overdue check, for last_run (d1 later) and in
\* _schedule_next_run (d2 later still); randint returns n
Dispatch(d1, d2, n) ==
    /\ pc \in {"run_pending", "run_all"}
    /\ pending # <<>>
    /\ LET j == Head(pending)
           t2 == now + d1
           t3 == t2 + d2
           r == job_run(job[j], now, t2, t3, n)
           slept == IF pc = "run_all" /\ r.err = "none" THEN delay ELSE 0
           moved == IF r.created /\ d1 + d2 > 0 THEN 1 ELSE 0
           out == IF r.err # "none" THEN r.err
                  ELSE IF ~r.created THEN "skipped"
                  ELSE IF r.ret = "CancelJob" THEN "ran_cancel"
                  ELSE "ran"
       IN
       /\ n \in Draws(job[j])
       /\ ~r.created => d1 = 0 /\ d2 = 0
       /\ advances + moved + (IF slept > 0 THEN 1 ELSE 0) <= MaxAdvances
       /\ job' = [job EXCEPT ![j] = r.job]
       /\ tasks' = IF r.created THEN Append(tasks, NewTask(j)) ELSE tasks
       /\ jobs' = IF r.err = "none" THEN run_job_jobs(jobs, j, r.ret) ELSE jobs
       /\ now' = (IF r.created THEN t3 ELSE now) + slept
       /\ advances' = advances + moved + (IF slept > 0 THEN 1 ELSE 0)
       /\ log' = Append(log, [job |-> j, out |-> out, t |-> t2, clock |-> t3])
       /\ ev' = NoEvent
       /\ IF r.err # "none"
          THEN pending' = <<>> /\ pc' = "idle"
          ELSE pending' = Tail(pending) /\ pc' = pc
    /\ UNCHANGED <<delay, tick, flash>>

\* run_all returns after the last pass of its loop
run_all_return ==
    /\ pc = "run_all"
    /\ pending = <<>>
    /\ pc' = "idle"
    /\ delay' = 0
    /\ ev' = Event("run_all_return", 0, "none", now)
    /\ UNCHANGED <<now, advances, job, jobs, tasks, pending, tick, log, flash>>

\* run_pending after its loop: the finished tasks are dropped from
\* self.tasks; with none left it returns, otherwise it awaits the rest
Prune ==
    /\ pc = "run_pending"
    /\ pending = <<>>
    /\ tasks' = NotDone(tasks)
    /\ IF NotDone(tasks) = <<>>
       THEN pc' = "idle" /\ ev' = Event("run_pending_return", 0, "none", now)
       ELSE pc' = "gather" /\ ev' = NoEvent
    /\ UNCHANGED <<now, advances, job, jobs, pending, delay, tick, log, flash>>

\* a task runs to its end while the driving coroutine is suspended; an
\* exception of an awaited task leaves gather, and run_pending, at once
TaskFinish(i, res) ==
    /\ pc \in {"idle", "gather"}
    /\ i \in 1..Len(tasks)
    /\ ~tasks[i].done
    /\ tasks' = [tasks EXCEPT ![i] = [@ EXCEPT !.done = TRUE, !.result = Stored(res)]]
    /\ pc' = IF pc = "gather" /\ res = "raise" THEN "idle" ELSE pc
    /\ ev' = IF pc = "gather" /\ res = "raise"
             THEN Event("run_pending_raise", tasks[i].job, res, now)
             ELSE NoEvent
    /\ tick' = IF pc = "idle" THEN NoTick ELSE tick
    /\ log' = IF pc = "idle" THEN <<>> ELSE log
    /\ UNCHANGED <<now, advances, job, jobs, pending, delay, flash>>

\* await asyncio.gather(*self.tasks) has every result: run_pending returns
run_pending_return ==
    /\ pc = "gather"
    /\ GatherDone(tasks)
    /\ pc' = "idle"
    /\ ev' = Event("run_pending_return", 0, "none", now)
    /\ UNCHANGED <<now, advances, job, jobs, tasks, pending, delay, tick, log, flash>>

\* ----------------------------------------------------------- persistence
\* JSON values.  A date or time is text: isoformat() text (of an instant or
\* of a time of day), the text of a timestamp number, or some other text;
\* null is None.  A datetime object is no JSON value.
Null == <<"null">>
Iso(t) == <<"iso", t>>
Timestamp(t) == <<"ts", t>>
BadText == <<"bad">>
Object(t) == <<"datetime", t>>

\* the record rec with the key k set to v
WithKey(rec, k, v) == rec @@ (k :> v)

\* a key of the record only when the value is not None
Optional(rec, k, t) == IF t = None THEN rec ELSE WithKey(rec, k, Iso(t))

\* Job.asdict (args, kwargs and job_func_name are left out: the callable
\* is not part of the job record here)
asdict(j) ==
    Optional(Optional(Optional(
        [interval |-> j.interval, latest |-> j.latest, unit |-> j.unit,
         start_day |-> j.start_day,
         cancel_after |-> IF j.cancel_after = None THEN Null
                          ELSE Object(j.cancel_after)],
        "at_time", j.at_time), "last_run", j.last_run), "next_run", j.next_run)

\* the list to_json hands to json.dumps
to_json(js) == [i \in 1..Len(js) |-> asdict(job[js[i]])]

\* json.dumps accepts the list: no value in it is a datetime object
Dumpable(data) == \A i \in 1..Len(data) : data[i].cancel_after = Null

\* parse_float_or_isotime
parse_float_or_isotime(v) ==
    IF v = Null THEN None
    ELSE IF v[1] \in {"ts", "iso"} THEN v[2]
    ELSE None

\* datetime.time.fromisoformat inside try / except: pass
parse_at_time(rec) ==
    IF "at_time" \in DOMAIN rec /\ rec["at_time"][1] = "iso"
    THEN rec["at_time"][2] ELSE None

\* the keys from_json reads with j[...]
Required == {"interval", "latest", "unit", "start_day", "cancel_after"}

\* the next Job object from_json creates
FreshId(jb) ==
    CHOOSE i \in RestoredIds :
        ~jb[i].exists /\ \A k \in RestoredIds : k < i => jb[k].exists

\* a loop body that registers the job whether or not it has a next_run
restore_always(st, rec, t, n) ==
    LET id == FreshId(st.job)
        j0 == [NewJob(rec.interval) EXCEPT
                  !.latest = rec.latest, !.unit = rec.unit,
                  !.start_day = rec.start_day,
                  !.next_run = IF "next_run" \in DOMAIN rec
                               THEN parse_float_or_isotime(rec["next_run"])
                               ELSE None]
        j1 == IF j0.next_run = None
              THEN schedule_next_run(j0, t, n).job
              ELSE j0
    IN [job |-> [st.job EXCEPT ![id] = j1], jobs |-> Append(st.jobs, id),
        err |-> "none"]

\* the body of the loop of from_json for one record, at clock value t with
\* randint returning n: the Job objects and the job list it leaves, and the
\* error that leaves the loop
restore_one(st, rec, t, n) ==
    IF ~(Required \subseteq DOMAIN rec)
    THEN [st EXCEPT !.err = "KeyError"]
    ELSE
    LET id == FreshId(st.job)
        j0 == [NewJob(rec.interval) EXCEPT
                  !.latest = rec.latest, !.unit = rec.unit,
                  !.start_day = rec.start_day,
                  !.cancel_after = IF rec.cancel_after = Null THEN None
                                   ELSE rec.cancel_after[2],
                  !.at_time = parse_at_time(rec),
                  !.last_run = IF "last_run" \in DOMAIN rec
                               THEN parse_float_or_isotime(rec["last_run"])
                               ELSE None,
                  !.next_run = IF "next_run" \in DOMAIN rec
                               THEN parse_float_or_isotime(rec["next_run"])
                               ELSE None]
        j1 == IF j0.next_run = None
              THEN schedule_next_run(j0, t, n).job
              ELSE j0
    IN [job |-> [st.job EXCEPT ![id] = j1],
        jobs |-> IF j1.next_run # None THEN Append(st.jobs, id) ELSE st.jobs,
        err |-> "none"]

\* from_json(data): the loop over the records, ended by the first error
RECURSIVE from_json(_, _, _, _)
from_json(data, st, t, n) ==
    IF data = <<>> \/ st.err # "none" THEN st
    ELSE from_json(Tail(data), restore_one(st, Head(data), t, n), t, n)

\* "for jb in jobs: cancel_job(jb)": the list iterator holds an index into
\* the list that cancel_job shortens
RECURSIVE cancel_each(_, _)
cancel_each(js, i) ==
    IF i > Len(js) THEN js ELSE cancel_each(cancel_job(js, js[i]), i + 1)

\* save_flash: the file is opened for writing, which empties it, and
\* to_json() is written.  json.dumps of a datetime object raises TypeError
\* or writes text that is not JSON, depending on the json module
save_flash ==
    /\ pc = "idle"
    /\ IF Dumpable(to_json(jobs))
       THEN /\ flash' = File(to_json(jobs))
            /\ ev' = Event("save_flash", 0, "none", now)
       ELSE /\ flash' = InvalidFile
            /\ \E out \in {"TypeError", "none"} :
                  ev' = Event("save_flash", 0, out, now)
    /\ UNCHANGED <<now, advances, job, jobs, tasks, pc, pending, delay>>
    /\ tick' = NoTick
    /\ log' = <<>>

\* load_flash(keep_existing), randint returning n in from_json.  ev.out is
\* the error it logs; none reaches the caller.  ev.value is
\* int(keep_existing)
load_flash(keep_existing, n) ==
    /\ pc = "idle"
    /\ LET kept == IF keep_existing THEN jobs ELSE cancel_each(jobs, 1)
           data == flash.data
           r == from_json(data, [job |-> job, jobs |-> kept, err |-> "none"],
                          now, n)
       IN
       /\ Cardinality({i \in RestoredIds : ~job[i].exists}) >= Len(data)
       /\ \A i \in 1..Len(data) :
             (Required \subseteq DOMAIN data[i] /\ data[i].latest # None) =>
                 n \in Draws([interval |-> data[i].interval,
                              latest |-> data[i].latest])
       /\ job' = r.job
       /\ jobs' = r.jobs
       /\ ev' = [Event("load_flash", 0,
                       IF flash.state = "missing" THEN "OSError"
                       ELSE IF flash.state = "invalid" THEN "ValueError"
                       ELSE r.err, now)
                    EXCEPT !.jobs0 = jobs,
                           !.value = <<IF keep_existing THEN 1 ELSE 0>>]
    /\ UNCHANGED <<now, advances, tasks, pc, pending, delay, flash>>
    /\ tick' = NoTick
    /\ log' = <<>>

\* the scheduler as a program drives it: jobs J are created, bound (also
\* more than once), cancelled, polled and run, run_all pauses for a delay
\* of D, tasks finish with a result of R, the clock moves
Driver(J, D, R) ==
    \/ \E d \in ClockSteps : Advance(d)
    \/ \E j \in J, n \in Intervals : every(j, n)
    \/ \E j \in J, u \in SpecUnits : PluralUnit(j, u)
    \/ \E j \in J, u \in SpecUnits : SingularUnit(j, u)
    \/ \E j \in J, n \in Intervals \cup Latests : do(j, n)
    \/ \E j \in J : CancelJobCall(j)
    \/ clear
    \/ run_pending
    \/ \E d \in D : run_all(d)
    \/ \E n \in Intervals \cup Latests : Dispatch(0, 0, n)
    \/ run_all_return
    \/ Prune
    \/ \E i \in 1..MaxTasks, res \in R : TaskFinish(i, res)
    \/ run_pending_return

\* several jobs of fixed interval and no deadline, whose callables return
\* a plain value, run without pauses
Next == Driver(JobIds, {0}, {"value"})

Spec == Init /\ [][Next]_vars

\* one job, which may also have a jitter bound and a deadline and whose
\* callable may return CancelJob or raise
NextOne ==
    \/ Driver({1}, Delays, TaskResults)
    \/ \E l \in Latests : to(1, l)
    \/ \E d \in UntilDeltas : until(1, d)

SpecOne == Init /\ [][NextOne]_vars

\* ------------------------------------------- idle_seconds between runs
\* jobs are created, bound, cancelled and run by run_all, the clock moves,
\* and the program reads idle_seconds whenever no call is under way
NextIdle ==
    \/ \E d \in ClockSteps : Advance(d)
    \/ \E j \in JobIds, n \in Intervals : every(j, n)
    \/ \E j \in JobIds, u \in SpecUnits : PluralUnit(j, u)
    \/ \E j \in JobIds, n \in Intervals : do(j, n)
    \/ \E j \in JobIds : CancelJobCall(j)
    \/ clear
    \/ IdleSeconds
    \/ run_all(0)
    \/ \E n \in Intervals : Dispatch(0, 0, n)
    \/ run_all_return
    \/ \E i \in 1..MaxTasks : TaskFinish(i, "value")

SpecIdle == Init /\ [][NextIdle]_vars

\* ------------------------------------------------- one job, every unit
\* arguments of to() in SpecRun
RunLatests == {1, 3}
\* amounts by which the clock moves in SpecRun
RunSteps == {1, 3600}
\* by how much the clock moves between the readings of one Job.run: not at
\* all, before _schedule_next_run reads it, or before last_run is read
Skews == {<<0, 0>>, <<0, 1>>, <<1, 0>>}

\* the job every(n).<unit> or every(n).to(l).<unit>, of every unit, before
\* it is bound
InitRun ==
    /\ \E n \in Intervals, u \in Units, l \in {None} \cup RunLatests :
          job = [j \in Ids |->
                    IF j = 1 THEN [NewJob(n) EXCEPT !.unit = u, !.latest = l]
                    ELSE NoJob]
    /\ now = T0
    /\ advances = 0
    /\ jobs = <<>>
    /\ tasks = <<>>
    /\ pc = "idle"
    /\ pending = <<>>
    /\ delay = 0
    /\ tick = NoTick
    /\ log = <<>>
    /\ ev = NoEvent
    /\ flash = NoFile

\* the job is bound (also more than once), polled and run while the clock
\* moves, also between the readings made by one Job.run
NextRun ==
    \/ \E d \in RunSteps : Advance(d)
    \/ \E n \in Intervals \cup RunLatests : do(1, n)
    \/ run_pending
    \/ run_all(0)
    \/ \E d \in Skews, n \in Intervals \cup RunLatests :
          Dispatch(d[1], d[2], n)
    \/ run_all_return
    \/ Prune
    \/ \E i \in 1..MaxTasks : TaskFinish(i, "value")
    \/ run_pending_return

SpecRun == InitRun /\ [][NextRun]_vars

\* ------------------------------------------- one job, weekday and at()
\* times of day at which the job is configured and bound: early in the day,
\* 09:00:00 and 13:53:20
DayTimes == {T0, 32400, 50000}
\* the instants of SpecWeek's initial states: each weekday at each time
WeekInstants == {d * 86400 + s : d \in 0..6, s \in DayTimes}
\* arguments of at(): "09:00", "09:00:30", ":30" and "24:00"
TimeStrs == {<<9, 0>>, <<9, 0, 30>>, <<Empty, 30>>, <<24, 0>>}

InitWeek ==
    /\ now \in WeekInstants
    /\ advances = 0
    /\ job = [j \in Ids |-> NoJob]
    /\ jobs = <<>>
    /\ tasks = <<>>
    /\ pc = "idle"
    /\ pending = <<>>
    /\ delay = 0
    /\ tick = NoTick
    /\ log = <<>>
    /\ ev = NoEvent
    /\ flash = NoFile

\* every(n), then unit, weekday and at() in any order, then do()
NextWeek ==
    \/ \E n \in Intervals : every(1, n)
    \/ \E u \in Units : PluralUnit(1, u)
    \/ \E u \in Units : SingularUnit(1, u)
    \/ \E d \in RangeOf(weekdays) : WeekdayAccessor(1, d)
    \/ \E ts \in TimeStrs : at(1, ts)
    \/ \E n \in Intervals : do(1, n)

SpecWeek == InitWeek /\ [][NextWeek]_vars

\* ------------------------------------------------ one job and the file
\* records a file can hold: a job every(1).seconds ...
RecPlain ==
    [interval |-> 1, latest |-> None, unit |-> "seconds",
     start_day |-> "None", cancel_after |-> Null]
\* ... saved before it ran, saved after it ran, every minute at :30
RecBound == WithKey(RecPlain, "next_run", Iso(T0 + 5))
RecRan == WithKey(WithKey(RecPlain, "last_run", Iso(T0)), "next_run", Iso(T0 + 1))
RecAt ==
    WithKey(WithKey([RecPlain EXCEPT !.unit = "minutes"], "at_time", Iso(30)),
            "next_run", Timestamp(T0 + 30))
\* records without a usable next_run: a plain one, one whose next_run is not
\* a date, one without unit, one with latest < interval, one with a weekday
\* and the unit days, one with an at_time and the unit seconds
RecNoNext == RecPlain
RecBadNext == WithKey(RecPlain, "next_run", BadText)
RecNoUnit == [RecPlain EXCEPT !.unit = "None"]
RecLatest == [RecPlain EXCEPT !.interval = 2, !.latest = 1]
RecAnchorDays == [RecPlain EXCEPT !.unit = "days", !.start_day = "monday"]
RecAtSeconds == WithKey(RecPlain, "at_time", Iso(30))
\* a record without the key interval
RecNoInterval ==
    WithKey([latest |-> None, unit |-> "seconds", start_day |-> "None",
             cancel_after |-> Null], "next_run", Iso(T0 + 5))

StoreRecords ==
    {RecBound, RecRan, RecAt, RecNoNext, RecBadNext, RecNoUnit, RecLatest,
     RecAnchorDays, RecAtSeconds, RecNoInterval}

\* the files of SpecStore's initial states: none, one that is not JSON, every
\* list of one record, and the record without interval before, between
\* and after good ones
StoreFiles ==
    {NoFile, InvalidFile}
        \cup {File(<<r>>) : r \in StoreRecords}
        \cup {File(<<RecNoInterval, RecBound>>),
              File(<<RecBound, RecNoInterval, RecRan>>),
              File(<<RecBound, RecNoInterval>>)}

\* the job of SpecStore before it is bound: every(1).seconds, with or
\* without .until(timedelta(seconds=1))
StoreJobs ==
    {[NewJob(1) EXCEPT !.unit = "seconds", !.cancel_after = c] :
        c \in {None, T0 + 3}}

\* the instant at which SpecStore's program runs: two seconds after the
\* records of StoreRecords were written
StoreInstants == {T0 + 2}

\* the jobs the program of SpecStore calls do() on: its own job and the
\* first job that from_json created
StoreBinds == {1, 3}

InitStore ==
    /\ now \in StoreInstants
    /\ advances = 0
    /\ \E j1 \in StoreJobs : job = [j \in Ids |-> IF j = 1 THEN j1 ELSE NoJob]
    /\ jobs = <<>>
    /\ tasks = <<>>
    /\ pc = "idle"
    /\ pending = <<>>
    /\ delay = 0
    /\ tick = NoTick
    /\ log = <<>>
    /\ ev = NoEvent
    /\ flash \in StoreFiles

\* the job and a restored job are bound (also again); the jobs are
\* saved, restored and run, all at one instant
NextStore ==
    \/ \E j \in StoreBinds, n \in Intervals : do(j, n)
    \/ save_flash
    \/ \E k \in BOOLEAN, n \in Intervals : load_flash(k, n)
    \/ run_all(0)
    \/ \E n \in Intervals : Dispatch(0, 0, n)
    \/ run_all_return

SpecStore == InitStore /\ [][NextStore]_vars

\* ---------------------------------------------------------------- claims
\* the loop of the last run_pending / run_all has made its last pass
LoopEnded == tick.kind # "none" /\ pending = <<>>

\* the passes of that loop that created a task
Ran == {k \in 1..Len(log) : log[k].out \in {"ran", "ran_cancel"}}

\* the passes of that loop that dispatched job j
PassesOf(j) == {k \in 1..Len(log) : log[k].job = j}

\* C1: when run_pending returns, every task in Scheduler.tasks is finished:
\* the tasks it created in this tick and the tasks created before it that
\* were still running
C1_ReturnsAfterAllTasks ==
    ev.op = "run_pending_return" =>
        /\ \A i \in 1..Len(tasks) : tasks[i].done
        /\ Cardinality(Ran) <= Len(tasks)

\* a tick that created a task returns while an earlier task is in the list too
C1_Witness ==
    /\ ev.op = "run_pending_return"
    /\ tick.kind = "run_pending"
    /\ Cardinality(Ran) >= 1
    /\ tick.ntasks0 >= 1
    /\ Len(tasks) > Cardinality(Ran)

\* C2: the passes of one run_pending are in ascending order of the next_run
\* the jobs had when the tick started
C2_AscendingDispatch ==
    tick.kind = "run_pending" =>
        \A a, b \in 1..Len(log) :
            a < b => tick.next_run0[log[a].job] <= tick.next_run0[log[b].job]

\* two jobs are dispatched in the reverse of their order in the job list
C2_Witness ==
    /\ tick.kind = "run_pending"
    /\ Len(log) = 2
    /\ tick.jobs0 = <<log[2].job, log[1].job>>
    /\ tick.next_run0[log[1].job] < tick.next_run0[log[2].job]

\* C3: a run_pending dispatches a registered job exactly once if it is due
\* (now >= next_run) and not at all otherwise, and a job that is not due
\* keeps its last_run and next_run
C3_DueOncePerTick ==
    (tick.kind = "run_pending" /\ LoopEnded) =>
        \A j \in RangeOf(tick.jobs0) :
            IF tick.t0 >= tick.next_run0[j]
            THEN Cardinality(PassesOf(j)) = 1
            ELSE /\ PassesOf(j) = {}
                 /\ job[j].next_run = tick.next_run0[j]
                 /\ job[j].last_run = tick.last_run0[j]

\* C4: a job dispatched strictly after its deadline gets no task in that
\* pass, and when the loop ends it is not in the job list
C4_OverdueNotRun ==
    /\ \A k \in 1..Len(log) :
          LET j == log[k].job IN
          (job[j].cancel_after # None /\ log[k].t > job[j].cancel_after)
              => /\ log[k].out = "skipped"
                 /\ LoopEnded => j \notin RangeOf(jobs)
    /\ pc \in {"run_pending", "run_all"}
          => Len(tasks) = tick.ntasks0 + Cardinality(Ran)

\* C5: a job dispatched before its deadline whose new next_run is past the
\* deadline is not dispatched again and is not in the job list when the
\* loop ends
C5_CancelledAfterRun ==
    \A k \in 1..Len(log) :
        log[k].out = "ran_cancel" =>
            /\ \A m \in 1..Len(log) : m > k => log[m].job # log[k].job
            /\ LoopEnded => log[k].job \notin RangeOf(jobs)

\* C6: when run_pending returns, no job whose callable returned CancelJob
\* is in the job list
C6_CancelJobReturned ==
    ev.op = "run_pending_return" =>
        \A i \in 1..Len(tasks) :
            tasks[i].result = "CancelJob" => tasks[i].job \notin RangeOf(jobs)

\* C7: after cancel_job(job) the job is not in the job list
C7_CancelledIsTerminal ==
    ev.op = "cancel_job" => ev.job \notin RangeOf(jobs)

\* C8: cancel_job on an unregistered job leaves the job list as it was, and
\* a second cancel_job of the same job changes nothing
C8_CancelIdempotent ==
    ev.op = "cancel_job" =>
        /\ ev.job \notin RangeOf(ev.jobs0) => jobs = ev.jobs0
        /\ cancel_job(jobs, ev.job) = jobs

\* the last pass of the loop that created a task for job j (0: none)
LastRan(j) ==
    IF PassesOf(j) \cap Ran = {} THEN 0
    ELSE CHOOSE k \in PassesOf(j) \cap Ran :
             \A m \in PassesOf(j) \cap Ran : m <= k

\* C9: after a dispatch that created a task for a job with no anchor
\* weekday, no at_time and no latest, last_run is the instant Job.run read
\* during the tick and next_run is last_run + interval * unit, whatever the
\* clock showed when _schedule_next_run ran
C9_NextRunFromLastRun ==
    \A j \in JobIds :
        (LastRan(j) # 0 /\ job[j].latest = None /\ job[j].start_day = "None"
                        /\ job[j].at_time = None) =>
            /\ job[j].last_run = log[LastRan(j)].t
            /\ tick.t0 <= job[j].last_run /\ job[j].last_run <= now
            /\ job[j].next_run
                   = job[j].last_run + timedelta(job[j].unit, job[j].interval)

\* a job of two minutes was run when it was not due and the clock moved
\* between the reading of last_run and the next-run computation
C9_Witness ==
    /\ LastRan(1) # 0
    /\ job[1].latest = None
    /\ job[1].unit = "minutes" /\ job[1].interval = 2
    /\ log[LastRan(1)].clock > log[LastRan(1)].t
    /\ tick.next_run0[1] # job[1].last_run
    /\ job[1].next_run = job[1].last_run + 120

\* C10: a job with latest >= interval has a period between interval * unit
\* and latest * unit, and once it has run, with no anchor weekday and no
\* at_time, next_run - last_run is that period
C10_JitterWithinBounds ==
    \A j \in JobIds :
        (job[j].exists /\ job[j].latest # None
                       /\ job[j].latest >= job[j].interval
                       /\ job[j].period # None) =>
            /\ timedelta(job[j].unit, job[j].interval) <= job[j].period
            /\ job[j].period <= timedelta(job[j].unit, job[j].latest)
            /\ (job[j].last_run # None /\ job[j].start_day = "None"
                                       /\ job[j].at_time = None)
                   => job[j].next_run - job[j].last_run = job[j].period

\* an hourly job every(1).to(3) has run and its next run is three hours
\* after the last
C10_Witness ==
    /\ job[1].unit = "hours" /\ job[1].interval = 1 /\ job[1].latest = 3
    /\ job[1].last_run # None
    /\ LastRan(1) # 0
    /\ job[1].next_run - job[1].last_run = 3 * 3600

\* C11: a do() on a job whose latest is smaller than its interval raises a
\* ScheduleValueError and does not register the job
C11_LatestBelowInterval ==
    (ev.op = "do" /\ job[ev.job].latest # None
                  /\ job[ev.job].latest < job[ev.job].interval) =>
        /\ IsInstance(ev.out, "ScheduleValueError")
        /\ ev.job \notin RangeOf(jobs)

\* C12: the first next_run of a weekly job with an anchor weekday and an
\* at_time, bound at instant t, is on the anchor weekday at the at_time, is
\* not before t, and no such instant lies between t and it
C12_FirstAnchoredRun ==
    (ev.op = "do" /\ ev.out = "none"
        /\ job[ev.job].start_day # "None" /\ job[ev.job].at_time # None
        /\ job[ev.job].unit = "weeks" /\ job[ev.job].interval = 1) =>
        LET nr == job[ev.job].next_run IN
        /\ weekday(nr) = WeekdayIndex(job[ev.job].start_day) - 1
        /\ nr % 86400 = job[ev.job].at_time
        /\ ev.t <= nr
        /\ nr - 604800 < ev.t

\* a job anchored to the day it is bound on, with an at_time later that
\* day, has its first next_run that same day
C12_Witness ==
    /\ ev.op = "do" /\ ev.out = "none"
    /\ job[ev.job].start_day # "None" /\ job[ev.job].at_time # None
    /\ job[ev.job].unit = "weeks"
    /\ weekday(ev.t) = WeekdayIndex(job[ev.job].start_day) - 1
    /\ ev.t % 86400 < job[ev.job].at_time
    /\ job[ev.job].next_run - ev.t < 86400

\* C17: a singular unit accessor or a weekday accessor on a job whose
\* interval is not 1 raises IntervalError and leaves unit and start_day as
\* they were; with interval 1 a weekday accessor sets start_day and selects
\* the unit weeks
C17_AccessorsNeedIntervalOne ==
    [][\A j \in JobIds :
         /\ \A u \in Units :
               (SingularUnit(j, u) /\ job[j].interval # 1) =>
                   /\ ev'.out = "IntervalError"
                   /\ job'[j].unit = job[j].unit
                   /\ job'[j].start_day = job[j].start_day
         /\ \A d \in RangeOf(weekdays) :
               WeekdayAccessor(j, d) =>
                   IF job[j].interval # 1
                   THEN /\ ev'.out = "IntervalError"
                        /\ job'[j].unit = job[j].unit
                        /\ job'[j].start_day = job[j].start_day
                   ELSE /\ ev'.out = "none"
                        /\ job'[j].start_day = d
                        /\ job'[j].unit = "weeks"]_vars

\* .friday was refused on a job of interval 2 whose unit was already set
C17_Witness ==
    /\ ev.op = "friday" /\ ev.out = "IntervalError"
    /\ job[ev.job].interval = 2
    /\ job[ev.job].unit = "days"
    /\ job[ev.job].start_day = "None"

\* C13: idle_seconds is None exactly when no job is registered, and is
\* otherwise the least next_run - now over the registered jobs
C13_IdleSeconds ==
    ev.op = "idle_seconds" =>
        IF jobs = <<>> THEN ev.value = <<>>
        ELSE /\ Len(ev.value) = 1
             /\ \A j \in RangeOf(jobs) : ev.value[1] <= job[j].next_run - now
             /\ \E j \in RangeOf(jobs) : ev.value[1] = job[j].next_run - now

\* idle_seconds was read with two jobs registered, the later registered
\* one due earlier and already overdue
C13_Witness ==
    /\ ev.op = "idle_seconds"
    /\ Len(jobs) = 2
    /\ job[jobs[2]].next_run < job[jobs[1]].next_run
    /\ ev.value = <<job[jobs[2]].next_run - now>>
    /\ ev.value[1] < 0

\* what from_json makes of the saved form of job j: the restored Job
\* objects, none when json.dumps does not accept the record
Restored(j) ==
    LET data == to_json(<<j>>)
        r == from_json(data,
                       [job |-> [i \in Ids |-> NoJob], jobs |-> <<>>,
                        err |-> "none"],
                       now, job[j].interval)
    IN IF Dumpable(data) THEN [i \in 1..Len(r.jobs) |-> r.job[r.jobs[i]]]
       ELSE <<>>

\* C14: every registered job, saved and restored, comes back as one job
\* with the same next_run and the same configuration
C14_RoundTrip ==
    \A j \in RangeOf(jobs) :
        /\ Len(Restored(j)) = 1
        /\ \A f \in {"next_run", "last_run", "interval", "latest", "unit",
                      "start_day", "at_time", "cancel_after"} :
              Restored(j)[1][f] = job[j][f]

\* the jobs the last load_flash registered
Loaded == RangeOf(jobs) \ RangeOf(ev.jobs0)

\* C15: a job that load_flash registered after computing its next_run (it
\* has a period) is one for which that computation raises no error
C15_FailedRecordDropped ==
    ev.op = "load_flash" =>
        \A j \in Loaded :
            job[j].period # None =>
                schedule_next_run(
                    [job[j] EXCEPT !.next_run = None, !.period = None],
                    ev.t, job[j].interval).err = "none"

\* the records of a file that have every required key and a next_run
GoodRecords(data) ==
    {i \in 1..Len(data) :
        /\ Required \subseteq DOMAIN data[i]
        /\ "next_run" \in DOMAIN data[i]
        /\ parse_float_or_isotime(data[i]["next_run"]) # None}

\* C16: load_flash lets no error out and registers a job for every good
\* record of the file, wherever a malformed record stands
C16_MalformedDropsOne ==
    (ev.op = "load_flash" /\ flash.state = "json") =>
        Cardinality(Loaded) >= Cardinality(GoodRecords(flash.data))

\* C19: every job in the job list has a next_run
C19_RegisteredHasNextRun ==
    \A i \in 1..Len(jobs) : job[jobs[i]].next_run # None

\* a restored job whose next-run computation failed is registered and its
\* dispatch raised the error again
C19_Witness ==
    \E k \in 1..Len(log) :
        /\ log[k].out = "ScheduleValueError"
        /\ log[k].job \in RestoredIds
        /\ log[k].job \in RangeOf(jobs)
        /\ job[log[k].job].next_run # None

\* C18: the job list holds every job at most once
C18_JobsUnique == Cardinality(RangeOf(jobs)) = Len(jobs)

\* the tasks that the tick just ended found in Scheduler.tasks, and the ones
\* it created, that have not finished
EarlierUnfinished == {i \in 1..tick.ntasks0 : ~tasks[i].done}
BatchUnfinished == {i \in (tick.ntasks0 + 1)..Len(tasks) : ~tasks[i].done}

\* C20: when run_all returns, the unfinished tasks are not both tasks that
\* this run_all created and tasks that an earlier tick created
C20_SingleBatch ==
    ev.op = "run_all_return" =>
        (EarlierUnfinished = {} \/ BatchUnfinished = {})

\* the time of day tm of a job of the given unit is still to come in the
\* day, hour or minute that holds the instant t
NotYet(unit, tm, t) ==
    LET tod == t % 86400 IN
    CASE unit = "days" -> tm > tod
      [] unit = "hours" -> Minute(tm) * 60 + Second(tm) > tod % 3600
      [] unit = "minutes" -> Second(tm) > tod % 60

\* C21: the first next_run of a job with an at_time and no anchor weekday is
\* now + period with the time of day overwritten, moved back by one period
\* exactly when the time of day is still to come in the current cycle
C21_AtTimeShift ==
    (/\ ev.op = "do" /\ ev.out = "none" /\ Len(jobs) = 1
     /\ job[ev.job].at_time # None
     /\ job[ev.job].start_day = "None") =>
        LET j == job[ev.job]
            over == replace(ev.t + j.period, j.unit, FALSE, j.at_time)
        IN j.next_run = IF NotYet(j.unit, j.at_time, ev.t)
                        THEN over - j.period ELSE over

\* the last operation was an at() that an hourly job accepted
HourlyAt == ev.op = "at" /\ ev.out = "none" /\ job[ev.job].unit = "hours"

C23_NextRunKept ==
    [][\A j \in JobIds :
         (/\ job[j].last_run = None /\ job[j].next_run # None
          /\ \E n \in Intervals : do(j, n)) =>
             job'[j].next_run = job[j].next_run]_vars

\* C24: the next_run that the first do() of a job computes is later than
\* the instant of the call
C24_NextRunLater ==
    (ev.op = "do" /\ ev.out = "none" /\ Len(jobs) = 1) =>
        job[ev.job].next_run > ev.t

\* C25: while no run_pending or run_all is under way, every job in the job
\* list that has a deadline has a next_run that is not past it
C25_NextRunWithinDeadline ==
    pc = "idle" =>
        \A i \in 1..Len(jobs) :
            job[jobs[i]].cancel_after # None =>
                job[jobs[i]].next_run <= job[jobs[i]].cancel_after

\* C26: after load_flash(keep_existing=False) no job that was registered
\* before the call is in the job list
C26_LoadReplaces ==
    (ev.op = "load_flash" /\ ev.value = <<0>>) =>
        RangeOf(jobs) \cap RangeOf(ev.jobs0) = {}

====
